---- MODULE Spec2Model ----
(***************************************************************************)
(* Model of src/main.py: the /chat endpoint of the Finance Loan Chatbot,   *)
(* its in-memory session store, the three tools and the agent loop the     *)
(* endpoint delegates to.                                                  *)
(*                                                                         *)
(* FastAPI runs a synchronous `def` endpoint in a thread pool, so several  *)
(* chat_endpoint invocations run concurrently over the one module-level    *)
(* `sessions` dict.  Python lists are objects: `sessions.get(session_id,   *)
(* [])` hands out the stored list itself, so the model keeps a heap of     *)
(* list objects and the references to them.                                *)
(***************************************************************************)
EXTENDS Integers, Sequences, FiniteSets, TLC

\* ---------------------------------------------------------------------
\* Bounds of the model
\* ---------------------------------------------------------------------

\* number of requests served in one behaviour
MaxRequests == 3
\* rounds of tool calls the agent graph performs before its recursion
\* limit stops it (agent.invoke is called without a config, main.py:131)
MaxRounds == 1
\* session identifiers uuid4 can hand out in one behaviour
MaxUuids == 1

\* worker threads of the server that run chat_endpoint
Threads == {"t1", "t2"}
\* the order in which the pool tries its workers
Before(u, t) == u = "t1" /\ t = "t2"

\* Optional[...] fields: the absent value
None == "<None>"

\* session ids a client invents itself; generated ones come from Uuids
ClientSessionIds == {"s1"}
Uuids == {"uuid" \o ToString(i) : i \in 1..MaxUuids}
SessionIds == ClientSessionIds \cup Uuids

CustomerIdInputs == {None, "", "C1001"}
MessageInputs == {None, "", "yes"}

\* list objects: one per session entry and one per running request
Refs == 1..(Cardinality(SessionIds) + Cardinality(Threads))
NoRef == 0

\* ---------------------------------------------------------------------
\* Data loading (main.py:30-34)
\* ---------------------------------------------------------------------

\* the content of data.json: customer_id -> record; dpd is optional in a
\* record (main.py:66 reads it with a default)
data_json ==
    [cid \in {"C1001", "C1002"} |->
        IF cid = "C1001"
          THEN [customer_name |-> "Asha Rao", total_due |-> 4500,
                due_date |-> "2024-05-01", dpd |-> 12]
          ELSE [customer_name |-> "Ravi Kumar", total_due |-> 900,
                due_date |-> "2024-06-15"]]

VARIABLES
    loan_data,   \* the dict line 34 loads: customer_id -> record
    calls        \* the tool invocations made directly, with their results

\* ---------------------------------------------------------------------
\* Tools (main.py:41-77)
\* ---------------------------------------------------------------------

get_customer_details(customer_id) ==
    IF customer_id \in DOMAIN loan_data
      THEN loan_data[customer_id]
      ELSE [error |-> "Customer ID not found"]

\* variant of get_loan_details: the name is not compared
get_loan_details_AnyName(customer_id, customer_name) ==
    IF customer_id \notin DOMAIN loan_data
      THEN [error |-> "No due amount found."]
      ELSE LET record == loan_data[customer_id]
           IN  [customer_name |-> record.customer_name,
                total_due |-> record.total_due,
                due_date |-> record.due_date,
                dpd |-> IF "dpd" \in DOMAIN record THEN record.dpd ELSE 0]

get_loan_details(customer_id, customer_name) ==
    IF \/ customer_id \notin DOMAIN loan_data
       \/ loan_data[customer_id].customer_name # customer_name
      THEN [error |-> "No due amount found."]
      ELSE LET record == loan_data[customer_id]
           IN  [customer_name |-> record.customer_name,
                total_due |-> record.total_due,
                due_date |-> record.due_date,
                dpd |-> IF "dpd" \in DOMAIN record THEN record.dpd ELSE 0]

record_commitment(customer_id, commitment_date) ==
    [text |-> "Commitment for " \o customer_id \o " noted."]

\* tools = [get_customer_details, get_loan_details, record_commitment]:
\* the calls the model can request, with arguments of its own choosing
tools ==
    {[name |-> "get_customer_details", customer_id |-> "C1001", arg |-> ""],
     [name |-> "get_loan_details", customer_id |-> "C1001",
      arg |-> "Asha Rao"],
     [name |-> "record_commitment", customer_id |-> "C1001",
      arg |-> "May 10th"]}

\* the tool node of the agent: dispatch a requested call by name
ToolResult(call) ==
    CASE call.name = "get_customer_details" ->
            get_customer_details(call.customer_id)
      [] call.name = "get_loan_details" ->
            get_loan_details(call.customer_id, call.arg)
      [] OTHER -> record_commitment(call.customer_id, call.arg)

\* ---------------------------------------------------------------------
\* Messages (langchain_core.messages, main.py:23)
\* ---------------------------------------------------------------------

HumanMessage(content) == [type |-> "human", content |-> content]
AIMessage(content, tool_calls) ==
    [type |-> "ai", content |-> content, tool_calls |-> tool_calls]
ToolMessage(call) ==
    [type |-> "tool", name |-> call.name, result |-> ToolResult(call)]

\* the text the model answers with when it stops calling tools
Replies == {"Am I speaking with Asha Rao?"}

\* the seed instruction of a new call
init_text(customer_id) ==
    "Start an outbound collection call for customer id " \o customer_id \o ". "

FallbackReply == "I'm sorry, I couldn't generate a response."

\* ---------------------------------------------------------------------
\* State
\* ---------------------------------------------------------------------

VARIABLES
    sessions,    \* session_id -> reference of the stored list, or NoRef
    heap,        \* reference -> content of that list object
    pc,          \* per thread: the place chat_endpoint has reached
    payload,     \* per thread: the ChatRequest, until line 197 (unread after)
    session_id,  \* per thread: local session_id
    history,     \* per thread: local history, a reference
    messages,    \* per thread: the agent's own message state
    rounds,      \* per thread: tool rounds the agent has performed
    response,    \* per thread: what the request returned
    uuids,       \* number of identifiers uuid4 has generated
    requests,    \* number of requests accepted so far
    \* history variables, written but never read by the program's steps
    resolved,    \* per thread: content of history when line 173 read it
    given,       \* per thread: the history handed to the agent loop
    path,        \* per thread: branch of lines 176-194 that ran
    stored,      \* per thread: the list line 198 stored
    cut          \* per thread: whether the recursion limit ended the loop

vars == <<sessions, heap, pc, payload, session_id, history, messages,
          rounds, response, uuids, requests, resolved, given, path, stored,
          cut, loan_data, calls>>

\* what chat_endpoint and the agent loop never write
tool_vars == <<loan_data, calls>>

NoPayload ==
    [session_id |-> None, customer_id |-> None, message |-> None,
     new_call |-> FALSE]
NoResponse == [status |-> 0, session_id |-> None, reply |-> None]

\* variant of Truthy: only the absent value counts as missing
Truthy_EmptyCounts(s) == s # None

\* Python truthiness of an Optional[str]
Truthy(s) == s # None /\ s # ""

\* references some variable of the program still holds
Live(sess, hist) ==
    {sess[s] : s \in SessionIds} \cup {hist[t] : t \in Threads}

\* a list object nobody references is reclaimed
Collect(hp, sess, hist) ==
    [r \in Refs |-> IF r \in Live(sess, hist) THEN hp[r] ELSE <<>>]

\* the reference a newly created list gets
NewRef(sess, hist) ==
    CHOOSE r \in Refs \ Live(sess, hist) :
        \A q \in Refs \ Live(sess, hist) : r <= q

Init ==
    /\ loan_data = data_json
    /\ calls = <<>>
    /\ sessions = [s \in SessionIds |-> NoRef]
    /\ heap = [r \in Refs |-> <<>>]
    /\ pc = [t \in Threads |-> "idle"]
    /\ payload = [t \in Threads |-> NoPayload]
    /\ session_id = [t \in Threads |-> None]
    /\ history = [t \in Threads |-> NoRef]
    /\ messages = [t \in Threads |-> <<>>]
    /\ rounds = [t \in Threads |-> 0]
    /\ response = [t \in Threads |-> NoResponse]
    /\ uuids = 0
    /\ requests = 0
    /\ resolved = [t \in Threads |-> <<>>]
    /\ given = [t \in Threads |-> <<>>]
    /\ path = [t \in Threads |-> "none"]
    /\ stored = [t \in Threads |-> <<>>]
    /\ cut = [t \in Threads |-> FALSE]

\* ---------------------------------------------------------------------
\* extract_last_ai_reply (main.py:135-140)
\* ---------------------------------------------------------------------

\* variant of extract_last_ai_reply: the scan runs forward
RECURSIVE extract_last_ai_reply_Forward(_)
extract_last_ai_reply_Forward(h) ==
    IF h = <<>> THEN FallbackReply
    ELSE IF Head(h).type = "ai" THEN Head(h).content
    ELSE extract_last_ai_reply_Forward(Tail(h))

RECURSIVE extract_last_ai_reply(_)
extract_last_ai_reply(h) ==
    IF h = <<>> THEN FallbackReply
    ELSE IF h[Len(h)].type = "ai" THEN h[Len(h)].content
    ELSE extract_last_ai_reply(SubSeq(h, 1, Len(h) - 1))

\* ---------------------------------------------------------------------
\* chat_endpoint (main.py:163-201), one action per interleaving point
\* ---------------------------------------------------------------------

\* the session ids a request can carry: none, an invented one, or one an
\* earlier response returned
SessionIdInputs ==
    {None} \cup ClientSessionIds \cup {u \in Uuids : \E i \in 1..uuids : u = "uuid" \o ToString(i)}

Payloads ==
    [session_id : SessionIdInputs, customer_id : CustomerIdInputs,
     message : MessageInputs, new_call : BOOLEAN]

\* variant of uuid4: one fixed identifier
uuid4_Fixed == "s1"

\* str(uuid.uuid4()): an identifier never handed out before
uuid4 == "uuid" \o ToString(uuids + 1)

\* variant of chat_endpoint_resolve: an unknown session_id is entered
\* into sessions (setdefault instead of get)
chat_endpoint_resolve_SetDefault(t) ==
    /\ pc[t] = "idle"
    /\ \A u \in Threads : pc[u] = "idle" => ~Before(u, t)
    /\ requests < MaxRequests
    /\ \E p \in Payloads :
        /\ Truthy(p.session_id) \/ uuids < MaxUuids
        /\ LET sid == IF Truthy(p.session_id) THEN p.session_id
                      ELSE uuid4
               known == sessions[sid] # NoRef
               ref == IF known THEN sessions[sid]
                      ELSE NewRef(sessions, [history EXCEPT ![t] = NoRef])
               hist == [history EXCEPT ![t] = ref]
           IN  /\ payload' = [payload EXCEPT ![t] = p]
               /\ session_id' = [session_id EXCEPT ![t] = sid]
               /\ uuids' = IF Truthy(p.session_id) THEN uuids ELSE uuids + 1
               /\ history' = hist
               /\ sessions' = [sessions EXCEPT ![sid] = ref]
               /\ heap' = Collect(heap, sessions', hist)
               /\ resolved' = [resolved EXCEPT ![t] = heap'[ref]]
    /\ requests' = requests + 1
    /\ pc' = [pc EXCEPT ![t] = "branch"]
    /\ UNCHANGED <<messages, rounds, response, given, path, stored, cut>>
    /\ UNCHANGED tool_vars

\* lines 172-173: a request arrives; session_id and history are determined
\* the thread pool gives a request to its first idle worker
chat_endpoint_resolve(t) ==
    /\ pc[t] = "idle"
    /\ \A u \in Threads : pc[u] = "idle" => ~Before(u, t)
    /\ requests < MaxRequests
    /\ \E p \in Payloads :
        /\ Truthy(p.session_id) \/ uuids < MaxUuids
        /\ LET sid == IF Truthy(p.session_id) THEN p.session_id ELSE uuid4
               known == sessions[sid] # NoRef
               ref == IF known THEN sessions[sid]
                      ELSE NewRef(sessions, [history EXCEPT ![t] = NoRef])
               hist == [history EXCEPT ![t] = ref]
           IN  /\ payload' = [payload EXCEPT ![t] = p]
               /\ session_id' = [session_id EXCEPT ![t] = sid]
               /\ uuids' = IF Truthy(p.session_id) THEN uuids ELSE uuids + 1
               /\ history' = hist
               /\ heap' = Collect(heap, sessions, hist)
               /\ resolved' = [resolved EXCEPT ![t] = heap'[ref]]
    /\ requests' = requests + 1
    /\ pc' = [pc EXCEPT ![t] = "branch"]
    /\ UNCHANGED <<sessions, messages, rounds, response, given, path, stored,
                   cut>>
    /\ UNCHANGED tool_vars

\* variant of StartsCall: the test `not history` is left out
StartsCall_NewCallOnly(t) == payload[t].new_call

\* `payload.new_call or not history` at line 176
StartsCall(t) == payload[t].new_call \/ heap[history[t]] = <<>>

\* raise HTTPException(...): the request ends, its locals are dropped
Raise(t, code) ==
    /\ pc' = [pc EXCEPT ![t] = "done"]
    /\ response' = [response EXCEPT ![t] =
                        [status |-> code, session_id |-> None, reply |-> None]]
    /\ history' = [history EXCEPT ![t] = NoRef]
    /\ heap' = Collect(heap, sessions, history')

\* lines 176-178: starting a call without customer_id
chat_endpoint_no_customer(t) ==
    /\ pc[t] = "branch"
    /\ StartsCall(t)
    /\ ~Truthy(payload[t].customer_id)
    /\ Raise(t, 400)
    /\ UNCHANGED <<sessions, payload, session_id, messages, rounds, uuids,
                   requests, resolved, given, path, stored, cut>>
    /\ UNCHANGED tool_vars

\* variant of chat_endpoint_start: line 180 is left out, the seed
\* instruction is appended to the history found
chat_endpoint_start_KeepsHistory(t) ==
    /\ pc[t] = "branch"
    /\ StartsCall(t)
    /\ Truthy(payload[t].customer_id)
    /\ heap' = [heap EXCEPT ![history[t]] =
                    Append(@, HumanMessage(init_text(payload[t].customer_id)))]
    /\ path' = [path EXCEPT ![t] = "start"]
    /\ pc' = [pc EXCEPT ![t] = "invoke"]
    /\ UNCHANGED <<sessions, payload, session_id, history, messages, rounds,
                   response, uuids, requests, resolved, given, stored, cut>>
    /\ UNCHANGED tool_vars

\* lines 176-187: a new list holding only the seed instruction
chat_endpoint_start(t) ==
    /\ pc[t] = "branch"
    /\ StartsCall(t)
    /\ Truthy(payload[t].customer_id)
    /\ LET ref == NewRef(sessions, [history EXCEPT ![t] = NoRef])
           hist == [history EXCEPT ![t] = ref]
       IN  /\ history' = hist
           /\ heap' = Collect([heap EXCEPT ![ref] =
                         <<HumanMessage(init_text(payload[t].customer_id))>>],
                         sessions, hist)
    /\ path' = [path EXCEPT ![t] = "start"]
    /\ pc' = [pc EXCEPT ![t] = "invoke"]
    /\ UNCHANGED <<sessions, payload, session_id, messages, rounds, response,
                   uuids, requests, resolved, given, stored, cut>>
    /\ UNCHANGED tool_vars

\* variant of chat_endpoint_continue: the message replaces the history
chat_endpoint_continue_Replaces(t) ==
    /\ pc[t] = "branch"
    /\ ~StartsCall(t)
    /\ Truthy(payload[t].message)
    /\ heap' = [heap EXCEPT ![history[t]] =
                    <<HumanMessage(payload[t].message)>>]
    /\ path' = [path EXCEPT ![t] = "continue"]
    /\ pc' = [pc EXCEPT ![t] = "invoke"]
    /\ UNCHANGED <<sessions, payload, session_id, history, messages, rounds,
                   response, uuids, requests, resolved, given, stored, cut>>
    /\ UNCHANGED tool_vars

\* lines 190-191: the message is appended to the list history refers to
chat_endpoint_continue(t) ==
    /\ pc[t] = "branch"
    /\ ~StartsCall(t)
    /\ Truthy(payload[t].message)
    /\ heap' = [heap EXCEPT ![history[t]] =
                    Append(@, HumanMessage(payload[t].message))]
    /\ path' = [path EXCEPT ![t] = "continue"]
    /\ pc' = [pc EXCEPT ![t] = "invoke"]
    /\ UNCHANGED <<sessions, payload, session_id, history, messages, rounds,
                   response, uuids, requests, resolved, given, stored, cut>>
    /\ UNCHANGED tool_vars

\* variant of chat_endpoint_no_message: the request goes on without a turn
chat_endpoint_no_message_GoesOn(t) ==
    /\ pc[t] = "branch"
    /\ ~StartsCall(t)
    /\ ~Truthy(payload[t].message)
    /\ path' = [path EXCEPT ![t] = "continue"]
    /\ pc' = [pc EXCEPT ![t] = "invoke"]
    /\ UNCHANGED <<sessions, heap, payload, session_id, history, messages,
                   rounds, response, uuids, requests, resolved, given, stored,
                   cut>>
    /\ UNCHANGED tool_vars

\* lines 193-194: continuing without a message
chat_endpoint_no_message(t) ==
    /\ pc[t] = "branch"
    /\ ~StartsCall(t)
    /\ ~Truthy(payload[t].message)
    /\ Raise(t, 400)
    /\ UNCHANGED <<sessions, payload, session_id, messages, rounds, uuids,
                   requests, resolved, given, path, stored, cut>>
    /\ UNCHANGED tool_vars

\* ---------------------------------------------------------------------
\* run_agent_with_history (main.py:129-132) and the agent (main.py:117-118)
\* ---------------------------------------------------------------------

\* line 131: agent.invoke({"messages": history}) reads the list into the
\* graph's own message state
agent_invoke(t) ==
    /\ pc[t] = "invoke"
    /\ messages' = [messages EXCEPT ![t] = heap[history[t]]]
    /\ given' = [given EXCEPT ![t] = heap[history[t]]]
    /\ rounds' = [rounds EXCEPT ![t] = 0]
    /\ pc' = [pc EXCEPT ![t] = "agent"]
    /\ payload' = [payload EXCEPT ![t] = NoPayload]
    /\ UNCHANGED <<sessions, heap, session_id, history, response,
                   uuids, requests, resolved, path, stored, cut>>
    /\ UNCHANGED tool_vars

\* a round in which the model requests a tool: the request and the tool's
\* result are added to the message state
agent_tool_round(t) ==
    /\ pc[t] = "agent"
    /\ rounds[t] < MaxRounds
    /\ \E call \in tools :
        messages' = [messages EXCEPT ![t] =
                        @ \o <<AIMessage("", <<call>>), ToolMessage(call)>>]
    /\ rounds' = [rounds EXCEPT ![t] = @ + 1]
    /\ UNCHANGED <<sessions, heap, pc, payload, session_id, history, response,
                   uuids, requests, resolved, given, path, stored, cut>>
    /\ UNCHANGED tool_vars

\* the model answers in plain text: the loop ends, line 132 returns the
\* message state as a new list and line 197 binds history to it
agent_reply(t) ==
    /\ pc[t] = "agent"
    /\ \E content \in Replies :
        LET result == Append(messages[t], AIMessage(content, <<>>))
            ref == NewRef(sessions, [history EXCEPT ![t] = NoRef])
            hist == [history EXCEPT ![t] = ref]
        IN  /\ messages' = [messages EXCEPT ![t] = result]
            /\ history' = hist
            /\ heap' = Collect([heap EXCEPT ![ref] = result], sessions, hist)
    /\ pc' = [pc EXCEPT ![t] = "store"]
    /\ UNCHANGED <<sessions, payload, session_id, rounds, response, uuids,
                   requests, resolved, given, path, stored, cut>>
    /\ UNCHANGED tool_vars

\* the model requests yet another tool when the graph's recursion limit is
\* used up: agent.invoke raises, and nothing in lines 129-201 catches it
agent_recursion_limit(t) ==
    /\ pc[t] = "agent"
    /\ rounds[t] = MaxRounds
    /\ cut' = [cut EXCEPT ![t] = TRUE]
    /\ Raise(t, 500)
    /\ UNCHANGED <<sessions, payload, session_id, messages, rounds, uuids,
                   requests, resolved, given, path, stored>>
    /\ UNCHANGED tool_vars

\* the model call or a tool raises (service unavailable, timeout, fault):
\* agent.invoke raises, and nothing in lines 129-201 catches it
agent_fault(t) ==
    /\ pc[t] = "agent"
    /\ Raise(t, 500)
    /\ UNCHANGED <<sessions, payload, session_id, messages, rounds, uuids,
                   requests, resolved, given, path, stored, cut>>
    /\ UNCHANGED tool_vars

\* variant of chat_endpoint_store: the history is stored under every key
\* of sessions
chat_endpoint_store_AllKeys(t) ==
    /\ pc[t] = "store"
    /\ sessions' = [s \in SessionIds |->
                        IF s = session_id[t] \/ sessions[s] # NoRef
                          THEN history[t] ELSE sessions[s]]
    /\ heap' = Collect(heap, sessions', history)
    /\ stored' = [stored EXCEPT ![t] = heap[history[t]]]
    /\ pc' = [pc EXCEPT ![t] = "reply"]
    /\ UNCHANGED <<payload, session_id, history, messages, rounds, response,
                   uuids, requests, resolved, given, path, cut>>
    /\ UNCHANGED tool_vars

\* line 198: sessions[session_id] = history
chat_endpoint_store(t) ==
    /\ pc[t] = "store"
    /\ sessions' = [sessions EXCEPT ![session_id[t]] = history[t]]
    /\ heap' = Collect(heap, sessions', history)
    /\ stored' = [stored EXCEPT ![t] = heap[history[t]]]
    /\ pc' = [pc EXCEPT ![t] = "reply"]
    /\ UNCHANGED <<payload, session_id, history, messages, rounds, response,
                   uuids, requests, resolved, given, path, cut>>
    /\ UNCHANGED tool_vars

\* lines 200-201: the reply is extracted and the response returned
chat_endpoint_reply(t) ==
    /\ pc[t] = "reply"
    /\ response' = [response EXCEPT ![t] =
                        [status |-> 200, session_id |-> session_id[t],
                         reply |-> extract_last_ai_reply(heap[history[t]])]]
    /\ history' = [history EXCEPT ![t] = NoRef]
    /\ heap' = Collect(heap, sessions, history')
    /\ pc' = [pc EXCEPT ![t] = "done"]
    /\ UNCHANGED <<sessions, payload, session_id, messages, rounds, uuids,
                   requests, resolved, given, path, stored, cut>>
    /\ UNCHANGED tool_vars

\* the response has been sent: the worker is idle again
chat_endpoint_return(t) ==
    /\ pc[t] = "done"
    /\ pc' = [pc EXCEPT ![t] = "idle"]
    /\ payload' = [payload EXCEPT ![t] = NoPayload]
    /\ session_id' = [session_id EXCEPT ![t] = None]
    /\ messages' = [messages EXCEPT ![t] = <<>>]
    /\ rounds' = [rounds EXCEPT ![t] = 0]
    /\ response' = [response EXCEPT ![t] = NoResponse]
    /\ resolved' = [resolved EXCEPT ![t] = <<>>]
    /\ given' = [given EXCEPT ![t] = <<>>]
    /\ path' = [path EXCEPT ![t] = "none"]
    /\ stored' = [stored EXCEPT ![t] = <<>>]
    /\ cut' = [cut EXCEPT ![t] = FALSE]
    /\ UNCHANGED <<sessions, heap, history, uuids, requests>>
    /\ UNCHANGED tool_vars

Next ==
    \E t \in Threads :
        \/ chat_endpoint_resolve(t)
        \/ chat_endpoint_no_customer(t)
        \/ chat_endpoint_start(t)
        \/ chat_endpoint_continue(t)
        \/ chat_endpoint_no_message(t)
        \/ agent_invoke(t)
        \/ agent_tool_round(t)
        \/ agent_reply(t)
        \/ agent_recursion_limit(t)
        \/ agent_fault(t)
        \/ chat_endpoint_store(t)
        \/ chat_endpoint_reply(t)
        \/ chat_endpoint_return(t)

Spec == Init /\ [][Next]_vars

\* ---------------------------------------------------------------------
\* The tools on their own (main.py:41-77): each is invoked with arguments
\* of the caller's choosing while a conversation is stored
\* ---------------------------------------------------------------------

\* tool invocations in one behaviour
MaxCalls == 2

\* arguments: known and unknown ids; the stored name, the name in another
\* case, with a trailing blank, and another customer's name
ToolCustomerIds == {"C1001", "C1002", "C9999"}
ToolCustomerNames == {"Asha Rao", "asha rao", "Asha Rao ", "Ravi Kumar"}
ToolDates == {"May 10th"}

\* what the tools never write
chat_vars == <<sessions, heap, pc, payload, session_id, history, messages,
               rounds, response, uuids, requests, resolved, given, path,
               stored, cut>>

Invocation(name, customer_id, arg, result) ==
    [name |-> name, customer_id |-> customer_id, arg |-> arg,
     result |-> result]

\* variant of invoke_get_customer_details: the record is taken out of the
\* dict (pop instead of get)
invoke_get_customer_details_Pops(customer_id) ==
    /\ Len(calls) < MaxCalls
    /\ calls' = Append(calls, Invocation("get_customer_details", customer_id,
                                         "", get_customer_details(customer_id)))
    /\ loan_data' = [c \in DOMAIN loan_data \ {customer_id} |-> loan_data[c]]
    /\ UNCHANGED chat_vars

\* lines 41-48
invoke_get_customer_details(customer_id) ==
    /\ Len(calls) < MaxCalls
    /\ calls' = Append(calls, Invocation("get_customer_details", customer_id,
                                         "", get_customer_details(customer_id)))
    /\ UNCHANGED loan_data
    /\ UNCHANGED chat_vars

\* lines 51-67
invoke_get_loan_details(customer_id, customer_name) ==
    /\ Len(calls) < MaxCalls
    /\ calls' = Append(calls, Invocation("get_loan_details", customer_id,
                           customer_name,
                           get_loan_details(customer_id, customer_name)))
    /\ UNCHANGED loan_data
    /\ UNCHANGED chat_vars

\* lines 70-77
invoke_record_commitment(customer_id, commitment_date) ==
    /\ Len(calls) < MaxCalls
    /\ calls' = Append(calls, Invocation("record_commitment", customer_id,
                           commitment_date,
                           record_commitment(customer_id, commitment_date)))
    /\ UNCHANGED loan_data
    /\ UNCHANGED chat_vars

\* a call of customer C1001 has been started and answered
InitTools ==
    /\ loan_data = data_json
    /\ calls = <<>>
    /\ sessions = [s \in SessionIds |-> IF s = "s1" THEN 1 ELSE NoRef]
    /\ heap = [r \in Refs |->
                  IF r = 1
                    THEN <<HumanMessage(init_text("C1001")),
                           AIMessage("Am I speaking with Asha Rao?", <<>>)>>
                    ELSE <<>>]
    /\ pc = [t \in Threads |-> "idle"]
    /\ payload = [t \in Threads |-> NoPayload]
    /\ session_id = [t \in Threads |-> None]
    /\ history = [t \in Threads |-> NoRef]
    /\ messages = [t \in Threads |-> <<>>]
    /\ rounds = [t \in Threads |-> 0]
    /\ response = [t \in Threads |-> NoResponse]
    /\ uuids = 0
    /\ requests = 1
    /\ resolved = [t \in Threads |-> <<>>]
    /\ given = [t \in Threads |-> <<>>]
    /\ path = [t \in Threads |-> "none"]
    /\ stored = [t \in Threads |-> <<>>]
    /\ cut = [t \in Threads |-> FALSE]

NextTools ==
    \/ \E c \in ToolCustomerIds : invoke_get_customer_details(c)
    \/ \E c \in ToolCustomerIds, n \in ToolCustomerNames :
          invoke_get_loan_details(c, n)
    \/ \E c \in ToolCustomerIds, d \in ToolDates :
          invoke_record_commitment(c, d)

SpecTools == InitTools /\ [][NextTools]_vars

TypeOK ==
    /\ \A s \in SessionIds : sessions[s] \in Refs \cup {NoRef}
    /\ \A t \in Threads : history[t] \in Refs \cup {NoRef}
    /\ requests \in 0..MaxRequests
    /\ uuids \in 0..MaxUuids

\* ---------------------------------------------------------------------
\* Vocabulary of the properties
\* ---------------------------------------------------------------------

\* the Conversation State stored under session id s (empty when unknown)
Conversation(s) == IF sessions[s] = NoRef THEN <<>> ELSE heap[sessions[s]]

IsPrefix(a, b) == Len(a) <= Len(b) /\ SubSeq(b, 1, Len(a)) = a

Succeeded(t) == pc[t] = "done" /\ response[t].status = 200
\* the agent loop raised while serving t's request
AgentFailed(t) == pc[t] = "done" /\ response[t].status = 500

Quiescent == \A t \in Threads : pc[t] = "idle"

\* turns the request of t set out to add: its human turn and the turns its
\* agent run produced
Intended(t) == 1 + Len(messages[t]) - Len(given[t])

\* ---------------------------------------------------------------------
\* C1
\* ---------------------------------------------------------------------

\* C1: when a continuing request appended its human turn and the agent loop
\* then failed, and no other request is in flight, the conversation stored
\* under its session_id is the one the request found (same turns, same
\* length).
C1_FailedRoundLeavesStateUnmodified ==
    \A t \in Threads :
        ( /\ AgentFailed(t)
          /\ path[t] = "continue"
          /\ \A u \in Threads \ {t} : pc[u] = "idle" )
        => Conversation(session_id[t]) = resolved[t]

\* ---------------------------------------------------------------------
\* C2
\* ---------------------------------------------------------------------

\* C2: whenever no request is in flight, every stored Conversation State is
\* non-empty and ends with an agent reply or a tool-result, never with a
\* human turn.
C2_StoredStateEndsWithAgentOrTool ==
    Quiescent =>
        \A s \in SessionIds :
            sessions[s] # NoRef =>
                /\ Conversation(s) # <<>>
                /\ Conversation(s)[Len(Conversation(s))].type
                       \in {"ai", "tool"}

\* ---------------------------------------------------------------------
\* C3
\* ---------------------------------------------------------------------

\* C3: when two continuing requests on the same session_id that found the
\* same stored conversation have both completed, the stored conversation
\* has at least the prior length plus the turns each of them set out to
\* append.
C3_NoLostUpdate ==
    \A t, u \in Threads :
        ( /\ t # u
          /\ Succeeded(t) /\ Succeeded(u)
          /\ path[t] = "continue" /\ path[u] = "continue"
          /\ session_id[t] = session_id[u]
          /\ resolved[t] = resolved[u] )
        => Len(Conversation(session_id[t]))
               >= Len(resolved[t]) + Intended(t) + Intended(u)

\* ---------------------------------------------------------------------
\* C4 - C6: validation of the request
\* ---------------------------------------------------------------------

\* an Optional[str] field that carries nothing: absent or empty
Missing(x) == x \in {None, ""}

\* lines 176-194 have decided t's request, whose fields are still in payload
Decided(t) ==
    \/ pc[t] = "invoke"
    \/ pc[t] = "done" /\ response[t].status = 400

Rejected(t) ==
    /\ pc[t] = "done"
    /\ response[t].status = 400
    /\ given[t] = <<>>
    /\ messages[t] = <<>>

\* C4: a request that starts a call (new_call, or no stored history under
\* its session_id) and carries no customer_id ends with status 400 and is
\* never handed to the agent loop.
C4_StartWithoutCustomerIdRejected ==
    \A t \in Threads :
        ( /\ Decided(t)
          /\ payload[t].new_call \/ resolved[t] = <<>>
          /\ Missing(payload[t].customer_id) )
        => Rejected(t)

C4_Witness ==
    \E t \in Threads :
        /\ Rejected(t)
        /\ payload[t].new_call
        /\ resolved[t] # <<>>
        /\ payload[t].customer_id = ""

\* C5: a request with new_call false on a session with stored history and
\* with no message (absent or empty) ends with status 400 and is never
\* handed to the agent loop.
C5_ContinueWithoutMessageRejected ==
    \A t \in Threads :
        ( /\ Decided(t)
          /\ ~payload[t].new_call
          /\ resolved[t] # <<>>
          /\ Missing(payload[t].message) )
        => Rejected(t)

C5_Witness ==
    \E t \in Threads :
        /\ Rejected(t)
        /\ ~payload[t].new_call
        /\ resolved[t] # <<>>
        /\ payload[t].message = ""
        /\ payload[t].customer_id = "C1001"

\* a request that continues (new_call false, a message supplied) under a
\* supplied session_id the store did not know
ContinuesUnknown(t) ==
    /\ Decided(t)
    /\ ~payload[t].new_call
    /\ ~Missing(payload[t].message)
    /\ ~Missing(payload[t].session_id)
    /\ resolved[t] = <<>>

\* C6 as claimed: continuing with a session_id that is not in the store is
\* never an error, with or without customer_id: the request goes on to the
\* agent loop.
C6_UnknownSessionNeverAnError ==
    \A t \in Threads : ContinuesUnknown(t) => pc[t] = "invoke"

\* C6 as amended: continuing with a session_id that is not in the store is
\* handled as the start of a call: with a customer_id the request goes to
\* the agent loop with a fresh state whose only turn is the seed
\* instruction, and without one it ends with status 400.
C6_UnknownSessionStartsCall ==
    \A t \in Threads :
        ContinuesUnknown(t) =>
            IF Missing(payload[t].customer_id)
              THEN Rejected(t)
              ELSE /\ pc[t] = "invoke"
                   /\ path[t] = "start"
                   /\ heap[history[t]] =
                        <<HumanMessage(init_text(payload[t].customer_id))>>

C6_Witness ==
    \E t \in Threads :
        /\ ContinuesUnknown(t)
        /\ payload[t].customer_id = "C1001"
        /\ pc[t] = "invoke"

\* ---------------------------------------------------------------------
\* C7, C8: what a request does to the conversation
\* ---------------------------------------------------------------------

\* line 198 has run for t's request
HasStored(t) == stored[t] # <<>>

\* C7 as claimed: for every request that stored a state, whatever its
\* shape, the conversation it found is a prefix of the one it stored.
C7_AppendOnlyEveryShape ==
    \A t \in Threads : HasStored(t) => IsPrefix(resolved[t], stored[t])

\* C7 as amended: for every request on the continue path that stored a
\* state, the conversation it found is a proper prefix of the one it
\* stored; a request on the start path stores a conversation that begins
\* with its seed instruction.
C7_AppendOnlyOnContinue ==
    \A t \in Threads :
        HasStored(t) =>
            /\ path[t] = "continue" =>
                  /\ IsPrefix(resolved[t], stored[t])
                  /\ Len(stored[t]) >= Len(resolved[t]) + 2
            /\ path[t] = "start" =>
                  /\ stored[t][1].type = "human"
                  /\ \E c \in CustomerIdInputs :
                        /\ ~Missing(c)
                        /\ stored[t][1].content = init_text(c)

C7_Witness ==
    \E t \in Threads :
        /\ Succeeded(t)
        /\ path[t] = "continue"
        /\ Len(resolved[t]) >= 2
        /\ IsPrefix(resolved[t], stored[t])
        /\ Len(stored[t]) > Len(resolved[t]) + 2

\* C8: the history a successful request handed to the agent loop holds
\* exactly one human turn more than the state the request found: the seed
\* instruction alone (start path) or the found history followed by the
\* request's message (continue path).
C8_ExactlyOneNewHumanTurn ==
    \A t \in Threads :
        Succeeded(t) =>
            \/ /\ path[t] = "start"
               /\ Len(given[t]) = 1
               /\ given[t][1].type = "human"
               /\ \E c \in CustomerIdInputs :
                     /\ ~Missing(c)
                     /\ given[t][1].content = init_text(c)
            \/ /\ path[t] = "continue"
               /\ resolved[t] # <<>>
               /\ Len(given[t]) = Len(resolved[t]) + 1
               /\ IsPrefix(resolved[t], given[t])
               /\ given[t][Len(given[t])].type = "human"
               /\ given[t][Len(given[t])].content \in MessageInputs
               /\ ~Missing(given[t][Len(given[t])].content)

\* ---------------------------------------------------------------------
\* C9: the reply
\* ---------------------------------------------------------------------

AiTurns(h) == {i \in 1..Len(h) : h[i].type = "ai"}
LastAi(h) == CHOOSE i \in AiTurns(h) : \A j \in AiTurns(h) : j <= i

\* C9: the reply of a successful request is the content of the last agent
\* turn of the state it stored, is the fallback string exactly when that
\* state has no agent turn, and is not the content of one of its human
\* turns.
C9_ReplyIsLastAgentTurn ==
    \A t \in Threads :
        Succeeded(t) =>
            /\ AiTurns(stored[t]) # {} =>
                  response[t].reply = stored[t][LastAi(stored[t])].content
            /\ response[t].reply = FallbackReply <=> AiTurns(stored[t]) = {}
            /\ \A i \in 1..Len(stored[t]) :
                  stored[t][i].type = "human" =>
                      response[t].reply # stored[t][i].content

\* a reply taken from a state with an earlier agent turn of other content
\* and with a tool-result and a human turn behind it
C9_Witness ==
    \E t \in Threads :
        /\ Succeeded(t)
        /\ Len(stored[t]) >= 6
        /\ stored[t][Len(stored[t]) - 1].type = "tool"
        /\ \E i \in AiTurns(stored[t]) :
              stored[t][i].content # response[t].reply
        /\ response[t].reply = "Am I speaking with Asha Rao?"

\* ---------------------------------------------------------------------
\* C10: the round cap
\* ---------------------------------------------------------------------

\* C10: a request whose agent loop was stopped because the model asked for
\* tools beyond the round cap ends with a fallback reply, not with a
\* failure.
C10_CapEndsWithFallbackReply ==
    \A t \in Threads :
        (pc[t] = "done" /\ cut[t]) =>
            /\ response[t].status = 200
            /\ response[t].reply = FallbackReply

\* ---------------------------------------------------------------------
\* C11: when the agent runs get_loan_details
\* ---------------------------------------------------------------------

IdentityQuestion(m) ==
    m.type = "ai" /\ m.content = "Am I speaking with Asha Rao?"
Affirmative(m) == m.type = "human" /\ m.content = "yes"

\* C11: in the message state of every agent run, a get_loan_details result
\* comes only behind an affirmative human turn that follows the agent's
\* identity question; so none comes in the first request of a call.
C11_LoanDetailsOnlyAfterConfirmation ==
    \A t \in Threads :
        \A i \in 1..Len(messages[t]) :
            ( /\ messages[t][i].type = "tool"
              /\ messages[t][i].name = "get_loan_details" )
            => \E k \in 1..i : \E j \in k..i :
                  /\ k < j /\ j < i
                  /\ IdentityQuestion(messages[t][k])
                  /\ Affirmative(messages[t][j])

\* ---------------------------------------------------------------------
\* C12, C13, C16: the tools
\* ---------------------------------------------------------------------

LoanFields == {"total_due", "due_date", "dpd"}

\* the invocations of one tool made so far
CallsOf(name) == {i \in 1..Len(calls) : calls[i].name = name}

\* the name given is exactly the one data.json holds for the id given
ExactMatch(c) ==
    /\ c.customer_id \in DOMAIN data_json
    /\ c.arg = data_json[c.customer_id].customer_name

\* C12: get_loan_details returns the loan payload (customer_name,
\* total_due, due_date, dpd) if and only if the id is in the record store
\* and the name equals the stored name exactly; otherwise it returns the
\* "No due amount found." payload.
C12_LoanDetailsIffExactName ==
    \A i \in CallsOf("get_loan_details") :
        LET c == calls[i]
        IN  IF ExactMatch(c)
              THEN LET r == data_json[c.customer_id]
                   IN  /\ DOMAIN c.result =
                             {"customer_name", "total_due", "due_date", "dpd"}
                       /\ c.result.customer_name = r.customer_name
                       /\ c.result.total_due = r.total_due
                       /\ c.result.due_date = r.due_date
                       /\ "dpd" \in DOMAIN r => c.result.dpd = r.dpd
              ELSE c.result = [error |-> "No due amount found."]

\* the loan payload was returned for an exact name, and refused for the
\* same id with the name in another case
C12_Witness ==
    \E i, j \in CallsOf("get_loan_details") :
        /\ ExactMatch(calls[i])
        /\ calls[i].result.total_due = 4500
        /\ calls[j].customer_id = calls[i].customer_id
        /\ calls[j].arg = "asha rao"
        /\ "error" \in DOMAIN calls[j].result

\* C13: for an id in the record store get_customer_details returns the
\* record's name, and its payload carries no loan field.
C13_CustomerDetailsCarryNoLoanFields ==
    \A i \in CallsOf("get_customer_details") :
        calls[i].customer_id \in DOMAIN data_json =>
            /\ calls[i].result.customer_name =
                   data_json[calls[i].customer_id].customer_name
            /\ DOMAIN calls[i].result \cap LoanFields = {}

\* C16: no tool invocation changes the record store, the session store or
\* a stored conversation; get_customer_details invoked again with the same
\* id returns the same payload, and for an unknown id that payload is the
\* "Customer ID not found" one.
C16_ToolsLeaveStateAlone ==
    [][ /\ loan_data' = loan_data
        /\ sessions' = sessions
        /\ heap' = heap
        /\ \A i, j \in 1..Len(calls') :
              ( /\ calls'[i].name = "get_customer_details"
                /\ calls'[j].name = "get_customer_details"
                /\ calls'[i].customer_id = calls'[j].customer_id )
              => calls'[i].result = calls'[j].result
        /\ \A i \in 1..Len(calls') :
              ( /\ calls'[i].name = "get_customer_details"
                /\ calls'[i].customer_id \notin DOMAIN data_json )
              => calls'[i].result = [error |-> "Customer ID not found"]
      ]_vars

\* get_customer_details was invoked twice with the same known id
C16_Witness ==
    /\ Len(calls) = 2
    /\ calls[1].name = "get_customer_details"
    /\ calls[2] = calls[1]
    /\ calls[1].customer_id = "C1001"
    /\ loan_data = data_json

\* ---------------------------------------------------------------------
\* C14: a fault in the agent loop
\* ---------------------------------------------------------------------

\* C14: a request whose agent run was begun and was not stopped by the
\* round cap ends with a reply even when the model or a tool faulted: its
\* status is 200 and it carries a reply text.
C14_FaultEndsWithFailureReply ==
    \A t \in Threads :
        (pc[t] = "done" /\ given[t] # <<>> /\ ~cut[t]) =>
            /\ response[t].status = 200
            /\ response[t].reply # None

\* ---------------------------------------------------------------------
\* C15, C17 - C19: session ids and the session store
\* ---------------------------------------------------------------------

\* the steps of chat_endpoint taken by thread t
Resolves(t) == pc[t] = "idle" /\ pc'[t] = "branch"
RaisesInvalid(t) ==
    pc[t] = "branch" /\ pc'[t] = "done" /\ response'[t].status = 400
Stores(t) == pc[t] = "store" /\ pc'[t] = "reply"
Responds(t) == pc[t] = "reply" /\ pc'[t] = "done"
\* any step of thread t
Steps(t) == pc'[t] # pc[t] \/ messages'[t] # messages[t]

\* C15: the session_id of a request is the one it supplied when that is
\* non-empty, and otherwise a generated identifier under which nothing is
\* stored and which no other request uses; it stays the same through the
\* request, line 198 leaves exactly the agent loop's result stored under
\* it, and the successful response carries it.
C15_ResponseCarriesStoringSessionId ==
    [][ \A t \in Threads :
          /\ Resolves(t) =>
                IF ~Missing(payload'[t].session_id)
                  THEN session_id'[t] = payload'[t].session_id
                  ELSE /\ session_id'[t] \in Uuids
                       /\ sessions[session_id'[t]] = NoRef
                       /\ \A u \in Threads : session_id[u] # session_id'[t]
          /\ pc[t] \in {"branch", "invoke", "agent", "store", "reply"} =>
                session_id'[t] = session_id[t]
          /\ Stores(t) =>
                /\ sessions'[session_id[t]] # NoRef
                /\ heap'[sessions'[session_id[t]]] = messages[t]
          /\ Responds(t) =>
                /\ response'[t].status = 200
                /\ response'[t].session_id = session_id[t]
      ]_vars

\* a response that carries a generated session_id, with the agent loop's
\* result stored under it
C15_Witness ==
    \E t \in Threads :
        /\ Succeeded(t)
        /\ response[t].session_id \in Uuids
        /\ Conversation(response[t].session_id) = messages[t]
        /\ Len(messages[t]) >= 2

\* C17: the steps of a request that fails with InvalidRequest, and the
\* lookup of line 173 of any request, leave the session store as it was:
\* the same session ids with the same conversations, and no entry for the
\* request's own session_id.
C17_InvalidRequestChangesNothing ==
    [][ \A t \in Threads :
          (Resolves(t) \/ RaisesInvalid(t)) =>
              /\ sessions' = sessions
              /\ \A s \in SessionIds : Conversation(s)' = Conversation(s)
      ]_vars

\* a rejected request on a session_id of its own, next to a stored session
C17_Witness ==
    \E t \in Threads :
        /\ Rejected(t)
        /\ session_id[t] \in SessionIds
        /\ sessions[session_id[t]] = NoRef
        /\ \E s \in SessionIds : sessions[s] # NoRef

\* the seed instruction of some customer
IsSeed(m) ==
    /\ m.type = "human"
    /\ \E c \in CustomerIdInputs : ~Missing(c) /\ m.content = init_text(c)

\* C18: a request on the start path (new_call, or no stored history) with
\* a customer_id hands the agent loop exactly one turn, the seed
\* instruction naming its customer_id, whatever history was stored and
\* whatever message it carries; the state it stores is that turn followed
\* by turns of the agent only, so it holds no human turn but the seed.
C18_StartIgnoresHistoryAndMessage ==
    \A t \in Threads :
        /\ ( /\ pc[t] = "invoke"
             /\ payload[t].new_call \/ resolved[t] = <<>>
             /\ ~Missing(payload[t].customer_id) )
           => /\ path[t] = "start"
              /\ heap[history[t]] =
                    <<HumanMessage(init_text(payload[t].customer_id))>>
        /\ (path[t] = "start" /\ pc[t] \in {"agent", "store", "reply", "done"})
           => /\ Len(given[t]) = 1
              /\ IsSeed(given[t][1])
        /\ (path[t] = "start" /\ HasStored(t))
           => /\ stored[t][1] = given[t][1]
              /\ \A i \in 2..Len(stored[t]) : stored[t][i].type # "human"

\* a new call with a message on a session that holds a conversation
C18_Witness ==
    \E t \in Threads :
        /\ pc[t] = "invoke"
        /\ payload[t].new_call
        /\ payload[t].message = "yes"
        /\ payload[t].customer_id = "C1001"
        /\ Len(resolved[t]) >= 2
        /\ Len(heap[history[t]]) = 1
        /\ Conversation(session_id[t]) = resolved[t]

\* C19: a step of a request changes the entry and the conversation of no
\* session_id other than the request's own.
C19_SessionsAreIsolated ==
    [][ \A t \in Threads :
          Steps(t) =>
              \A s \in SessionIds \ {session_id[t], session_id'[t]} :
                  /\ sessions'[s] = sessions[s]
                  /\ Conversation(s)' = Conversation(s)
      ]_vars

\* two sessions hold conversations and a request has just stored one of
\* them while a request on the other is in flight
C19_Witness ==
    \E t, u \in Threads :
        /\ pc[t] = "reply"
        /\ pc[u] \in {"invoke", "agent", "store"}
        /\ session_id[t] # session_id[u]
        /\ sessions[session_id[t]] # NoRef
        /\ sessions[session_id[u]] # NoRef

====
